---- MODULE Spec2Model ----
(***************************************************************************)
(* Model of transcribe.py: a linear pipeline that validates its inputs,    *)
(* extracts a WAV with ffmpeg, posts it to the Fireworks transcription     *)
(* endpoint, normalizes the JSON response, writes the transcript and       *)
(* prints it, with a try/finally that removes the temporary WAV.           *)
(*                                                                         *)
(* Representation.                                                         *)
(*   - An optional value (Python None or a value) is <<>> or <<v>>.        *)
(*   - A JSON value is tagged: Num(x), Str(s), Arr(a), Null.  A JSON       *)
(*     object / Python dict is a function from key strings to values, so   *)
(*     an absent key is a key outside its DOMAIN.                          *)
(*   - A float number of seconds x is the integer 10*x (one decimal        *)
(*     digit), so 1.9 is 19 and 3661 is 36610.                             *)
(*   - A text is a sequence of one-character strings.                      *)
(*   - A path is the sequence of its components.                           *)
(***************************************************************************)
EXTENDS Integers, Sequences, FiniteSets, TLC

VARIABLES
    pc,           \* position of main(): the next step to run
    keep_audio,   \* args.keep_audio
    args_output,  \* args.output: <<>> or <<path>>
    video_exists, \* whether video_path.exists()
    api_key,      \* os.environ.get("FIREWORKS_API_KEY"): <<>> or <<string>>
    ffmpeg,       \* state of the ffmpeg binary: "ok", "missing" or "broken"
    fs,           \* the files and directories that exist (set of paths)
    tmp_dir,      \* tmp_dir of main(): <<>> or <<path>>
    audio_path,   \* audio_path of main(): <<>> or <<path>>
    output_path,  \* output_path of main(): <<>> or <<path>>
    wav_size,     \* st_size of the extracted WAV, in bytes
    timeout,      \* timeout passed to requests.post: <<>> or <<seconds>>
    posts,        \* number of HTTP POSTs sent
    response,     \* the HTTP response: <<>> or <<response>>
    transcript,   \* transcript of main(): <<>> or <<dict>>
    written,      \* the documents the run dumped to output_path, in order
    stdout,       \* the segment lines print_transcript printed
    error,        \* the exception propagating: <<>> or <<exception>>
    exit_status,  \* the process exit status: <<>> while running
    trace,        \* history: the steps the run has started, in order
    arg,          \* argument of a pure-function call (SpecFn)
    ret           \* its result: <<>> before the call

vars == <<pc, keep_audio, args_output, video_exists, api_key, ffmpeg, fs,
          tmp_dir, audio_path, output_path, wav_size, timeout, posts,
          response, transcript, written, stdout, error, exit_status, trace,
          arg, ret>>

mainVars == <<pc, keep_audio, args_output, video_exists, api_key, ffmpeg, fs,
              tmp_dir, audio_path, output_path, wav_size, timeout, posts,
              response, transcript, written, stdout, error, exit_status,
              trace>>

----------------------------------------------------------------------------
(* Bounds of the model.                                                    *)

MaxHalfMiB == 200     \* WAV sizes range over 0 .. MaxHalfMiB half-mebibytes
MaxSegs == 1          \* segments per enumerated response
MaxWords == 1         \* words per enumerated response
MaxTenths == 73220    \* format_timestamp inputs up to MaxTenths / 10 seconds

----------------------------------------------------------------------------
(* JSON values.                                                            *)

Num(x) == [num |-> x]
Str(s) == [str |-> s]
Arr(a) == [arr |-> a]
Null == [null |-> TRUE]

IsNum(v) == "num" \in DOMAIN v
IsStr(v) == "str" \in DOMAIN v
IsArr(v) == "arr" \in DOMAIN v

\* dict.get(key, default)
Get(obj, key, default) == IF key \in DOMAIN obj THEN obj[key] ELSE default

Max(a, b) == IF a >= b THEN a ELSE b

Whitespace == {" ", "\t", "\n"}

RECURSIVE LStrip(_)
LStrip(s) ==
    IF s # <<>> /\ Head(s) \in Whitespace THEN LStrip(Tail(s)) ELSE s

RECURSIVE RStrip(_)
RStrip(s) ==
    IF s # <<>> /\ s[Len(s)] \in Whitespace
    THEN RStrip(SubSeq(s, 1, Len(s) - 1)) ELSE s

\* str.strip()
Strip(s) == RStrip(LStrip(s))

\* The Python string of a text.
RECURSIVE Join(_)
Join(s) == IF s = <<>> THEN "" ELSE Head(s) \o Join(Tail(s))

----------------------------------------------------------------------------
(* format_timestamp.                                                       *)

\* Mutant: int() taken as rounding to the nearest second.
IntOfRounded(seconds) == (seconds + 5) \div 10

\* int(seconds): truncation toward zero of a float given in tenths.
IntOf(seconds) ==
    IF seconds >= 0 THEN seconds \div 10 ELSE -((-seconds) \div 10)

\* f"{n:02d}" for n >= 0
Pad2(n) == IF n < 10 THEN "0" \o ToString(n) ELSE ToString(n)

\* The fields divmod computes, before formatting.
TimestampFields(seconds) ==
    LET total_seconds == IntOf(seconds)
        hours == total_seconds \div 3600
        remainder == total_seconds % 3600
        minutes == remainder \div 60
        secs == remainder % 60
    IN  [hours |-> hours, minutes |-> minutes, secs |-> secs]

format_timestamp(seconds) ==
    LET f == TimestampFields(seconds)
    IN  IF f.hours > 0
        THEN ToString(f.hours) \o "h" \o Pad2(f.minutes) \o "m"
                 \o Pad2(f.secs) \o "s"
        ELSE ToString(f.minutes) \o "m" \o Pad2(f.secs) \o "s"

----------------------------------------------------------------------------
(* transcribe: the timeout heuristic.                                      *)

MiB == 1024 * 1024

\* Doubles.  A double of file_size_mb / 10 is kept as its 53-bit significand
\* in two limbs, hi * 2^26 + lo with 2^26 <= hi <= 2^27 and lo < 2^26, and
\* the numbers that place its binary point; every product below stays under
\* 2^31.  st_size / (1024 * 1024) is exact (a division by a power of two),
\* st_size < 2^27.
Limb == 2 ^ 26

\* The number of bits of i >= 1.
BitLength(i) == CHOOSE l \in 1..30 : 2 ^ (l - 1) <= i /\ i < 2 ^ l

\* file_size_mb / 10, rounded to nearest, ties to even: the significand of
\* st_size / 5 by long division, the powers of two kept apart.  The value
\* is (hi * 2^26 + lo) * 2^(bits - 53 - 21 - scale).
FileSizeMbOver10(st_size) ==
    LET scale == CHOOSE j \in 0..3 :
                     st_size * 2 ^ j >= 5 /\ (j = 0 \/ st_size * 2 ^ (j - 1) < 5)
        n == st_size * 2 ^ scale
        bits == BitLength(n \div 5)
        x == n * 2 ^ (27 - bits)
        hi == x \div 5
        y == (x % 5) * Limb
        lo == y \div 5
        round_bit == (2 * (y % 5)) \div 5
        sticky == (2 * (y % 5)) % 5 # 0
        up == round_bit = 1 /\ (sticky \/ lo % 2 = 1)
    IN  [hi |-> IF up /\ lo + 1 = Limb THEN hi + 1 ELSE hi,
         lo |-> IF up THEN (lo + 1) % Limb ELSE lo,
         bits |-> bits, scale |-> scale]

\* int(a * 60) for the double a: the product by 15 in limbs, rounded to 53
\* bits (nearest, ties to even), then truncated at the binary point (phi is
\* below 2^31, so a shift of 31 bits or more leaves 0).
IntTimes60(a) ==
    LET nlo == (15 * a.lo) % Limb
        nhi == 15 * a.hi + (15 * a.lo) \div Limb
        drop == IF nhi < 2 ^ 30 THEN 3 ELSE 4
        rem == nlo % 2 ^ drop
        plo == nlo \div 2 ^ drop
        half == 2 ^ (drop - 1)
        up == rem > half \/ (rem = half /\ plo % 2 = 1)
        phi == IF up /\ plo + 1 = 2 ^ (26 - drop) THEN nhi + 1 ELSE nhi
        shift == 46 - a.bits + a.scale
    IN  IF shift >= 31 THEN 0 ELSE phi \div 2 ^ shift

\* int(file_size_mb / 10 * 60) with file_size_mb = st_size / (1024 * 1024),
\* in double arithmetic: 20.5 MiB gives 122, not 123.
ScaledSeconds(st_size) ==
    IF st_size = 0 THEN 0 ELSE IntTimes60(FileSizeMbOver10(st_size))

\* Mutant: the 60-second margin left out.
TimeoutNoMargin(st_size) == Max(120, ScaledSeconds(st_size))

\* timeout = max(120, int(file_size_mb / 10 * 60) + 60)
Timeout(st_size) == Max(120, ScaledSeconds(st_size) + 60)

----------------------------------------------------------------------------
(* transcribe: normalization of the response.                              *)

EmptyText == Str(<<>>)

NormalizeWord(w) ==
    [word |-> Get(w, "word", EmptyText),
     start |-> Get(w, "start", Num(0)),
     end |-> Get(w, "end", Num(0))]

\* Mutant: words read with a default, segment.get("words", []).
NormalizeSegmentWordsDefault(segment) ==
    [start |-> Get(segment, "start", Num(0)),
     end |-> Get(segment, "end", Num(0)),
     text |-> Str(Strip(Get(segment, "text", EmptyText).str)),
     words |-> LET ws == Get(segment, "words", Arr(<<>>)).arr
               IN  [i \in 1..Len(ws) |-> NormalizeWord(ws[i])]]

\* One iteration of the loop over result["segments"].
NormalizeSegment(segment) ==
    LET seg_data ==
            [start |-> Get(segment, "start", Num(0)),
             end |-> Get(segment, "end", Num(0)),
             text |-> Str(Strip(Get(segment, "text", EmptyText).str))]
    IN  IF "words" \in DOMAIN segment
        THEN seg_data @@
             ("words" :> [i \in 1..Len(segment["words"].arr) |->
                             NormalizeWord(segment["words"].arr[i])])
        ELSE seg_data

\* Mutant: the text read without a default, segment["text"] (KeyError).
SegmentRaisesOnMissingText(segment) ==
    \/ "text" \notin DOMAIN segment
    \/ ~IsStr(segment["text"])
    \/ "words" \in DOMAIN segment /\ ~IsArr(segment["words"])

\* The iteration raises: .strip() of a text that is no string
\* (AttributeError), or iteration over words that are no list (TypeError).
SegmentRaises(segment) ==
    \/ ~IsStr(Get(segment, "text", EmptyText))
    \/ "words" \in DOMAIN segment /\ ~IsArr(segment["words"])

\* transcribe raises while normalizing a 200 response: segments that are no
\* list, a segment that raises, or format_timestamp of a duration that is
\* no number (int(None) is a TypeError).
NormalizeRaises(result) ==
    LET segments == Get(result, "segments", Arr(<<>>))
    IN  \/ ~IsArr(segments)
        \/ \E i \in 1..Len(segments.arr) : SegmentRaises(segments.arr[i])
        \/ ~IsNum(Get(result, "duration", Num(0)))

BuildTranscript(audio_name, result) ==
    LET segments == Get(result, "segments", Arr(<<>>)).arr
    IN  [audio_file |-> audio_name,
         language |-> Get(result, "language", Str(<<"e", "n">>)),
         duration |-> Get(result, "duration", Num(0)),
         segments |-> [i \in 1..Len(segments) |->
                          NormalizeSegment(segments[i])]]

\* The exception of a normalization that raises: the first one in program
\* order, the loop over the segments before the format of the duration.
RaisedType(result) ==
    LET segments == Get(result, "segments", Arr(<<>>))
    IN  IF ~IsArr(segments) THEN "TypeError"
        ELSE IF \E i \in 1..Len(segments.arr) : SegmentRaises(segments.arr[i])
        THEN LET first == CHOOSE i \in 1..Len(segments.arr) :
                     /\ SegmentRaises(segments.arr[i])
                     /\ \A j \in 1..(i - 1) : ~SegmentRaises(segments.arr[j])
             IN  IF ~IsStr(Get(segments.arr[first], "text", EmptyText))
                 THEN "AttributeError" ELSE "TypeError"
        ELSE "TypeError"

\* What transcribe does with the body of a 200 response: returns the
\* transcript or raises.
Normalize(audio_name, result) ==
    IF NormalizeRaises(result)
    THEN [raised |-> RaisedType(result)]
    ELSE [transcript |-> BuildTranscript(audio_name, result)]

----------------------------------------------------------------------------
(* The inputs enumerated.                                                  *)

Opt(S) == {<<>>} \cup {<<v>> : v \in S}

SeqsUpTo(S, n) == UNION {[1..k -> S] : k \in 0..n}

\* The object holding the keys of `pairs` (a sequence of <<key, optional
\* value>>) whose value is present.
MkObj(pairs) ==
    LET present == {i \in DOMAIN pairs : pairs[i][2] # <<>>}
    IN  [k \in {pairs[i][1] : i \in present} |->
            pairs[CHOOSE i \in present : pairs[i][1] = k][2][1]]

Hello == <<" ", "h", "e", "l", "l", "o", "\n">>

WordObjs ==
    {MkObj(<< <<"word", w>>, <<"start", s>>, <<"end", e>> >>) :
        w \in Opt({Str(<<" ", "h", "i">>)}),
        s \in Opt({Num(152)}), e \in Opt({Num(160)})}

\* The segments holding at most w words: every combination of absent fields.
SegmentObjs(w) ==
    {MkObj(<< <<"start", s>>, <<"end", e>>, <<"text", t>>, <<"words", ws>> >>) :
        s \in Opt({Num(150)}), e \in Opt({Num(300)}), t \in Opt({Str(Hello)}),
        ws \in Opt({Arr(l) : l \in SeqsUpTo(WordObjs, w)})}

\* The number of words of a segment.
WordCount(segment) ==
    IF "words" \in DOMAIN segment THEN Len(segment["words"].arr) ELSE 0

\* The lists of at most n segments holding at most w words in all.
RECURSIVE SegmentLists(_, _)
SegmentLists(n, w) ==
    IF n = 0 THEN {<<>>}
    ELSE {<<>>} \cup
         UNION {{<<s>> \o rest : rest \in SegmentLists(n - 1, w - WordCount(s))} :
                   s \in SegmentObjs(w)}

\* A response body with the top-level fields that are present.
ResultObj(l, d, s) ==
    MkObj(<< <<"language", l>>, <<"duration", d>>, <<"segments", s>> >>)

\* Responses holding a null where a value is expected.
NullObjs ==
    {[duration |-> Null],
     [segments |-> Null],
     [segments |-> Arr(<< [text |-> Null] >>)],
     [segments |-> Arr(<< [words |-> Null] >>)],
     [segments |-> Arr(<< [start |-> Null, text |-> Str(Hello)] >>)]}

Seconds == (-30)..MaxTenths

WavName == "talk.wav"

----------------------------------------------------------------------------
(* SpecFn: the pure functions, each applied to every enumerated input.     *)

Idle ==
    /\ pc = "idle" /\ keep_audio = FALSE /\ args_output = <<>>
    /\ video_exists = TRUE /\ api_key = <<>> /\ ffmpeg = "ok" /\ fs = {}
    /\ tmp_dir = <<>> /\ audio_path = <<>> /\ output_path = <<>>
    /\ wav_size = 0 /\ timeout = <<>> /\ posts = 0 /\ response = <<>>
    /\ transcript = <<>> /\ written = <<>> /\ stdout = <<>> /\ error = <<>>
    /\ exit_status = <<>> /\ trace = <<>>

InitFn ==
    /\ Idle
    /\ \/ \E s \in Seconds : arg = [fn |-> "format_timestamp", seconds |-> s]
       \/ \E l \in Opt({Str(<<"d", "e">>)}), d \in Opt({Num(300)}),
             s \in Opt({Arr(ss) : ss \in SegmentLists(MaxSegs, MaxWords)}) :
             arg = [fn |-> "normalize", result |-> ResultObj(l, d, s)]
       \/ \E r \in NullObjs : arg = [fn |-> "normalize", result |-> r]
    /\ ret = <<>>

CallFormatTimestamp ==
    /\ arg.fn = "format_timestamp" /\ ret = <<>>
    /\ ret' = <<format_timestamp(arg.seconds)>>
    /\ UNCHANGED <<mainVars, arg>>

CallNormalize ==
    /\ arg.fn = "normalize" /\ ret = <<>>
    /\ ret' = <<Normalize(WavName, arg.result)>>
    /\ UNCHANGED <<mainVars, arg>>

NextFn == CallFormatTimestamp \/ CallNormalize

SpecFn == InitFn /\ [][NextFn]_vars

----------------------------------------------------------------------------
(* main: paths and inputs.                                                 *)

VideoStem == "talk"

video_path == <<"videos", VideoStem \o ".mp4">>

\* Path.parent
Parent(path) == SubSeq(path, 1, Len(path) - 1)

\* Path.name
Name(path) == path[Len(path)]

\* video_path.parent / f"{video_path.stem}.wav"
KeptWav == Parent(video_path) \o <<VideoStem \o ".wav">>

\* video_path.parent / f"{video_path.stem}_transcript.json"
DefaultOutput == Parent(video_path) \o <<VideoStem \o "_transcript.json">>

\* The directories tempfile.mkdtemp() may create.
TmpDirs == {<<"tmp", "tmpk3x9">>, <<"tmp", "tmp0qz1">>}

OutputArgs == {<<>>, << <<"out", "t.json">> >>}

ApiKeys == {<<>>, <<"">>, <<"fw_key">>}

\* st_size of the WAV ffmpeg wrote: whole half-mebibytes and one byte more.
Sizes == {k * (MiB \div 2) + r : k \in 0..MaxHalfMiB, r \in {0, 1}}

World == <<"w", "o", "r", "l", "d">>

\* Bodies of the 200 responses of the pipeline: two segments, an empty
\* object, a segment with words, and the responses holding nulls.
Bodies ==
    {[language |-> Str(<<"e", "n">>), duration |-> Num(300),
      segments |-> Arr(<< [start |-> Num(0), end |-> Num(150),
                           text |-> Str(Hello)],
                          [start |-> Num(150), end |-> Num(300),
                           text |-> Str(World)] >>)],
     MkObj(<<>>),
     [duration |-> Num(36619),
      segments |-> Arr(<< [end |-> Num(19), text |-> Str(Hello),
                           words |-> Arr(<< [word |-> Str(Hello)] >>)],
                          [start |-> Num(19), end |-> Null] >>)]}
    \cup NullObjs

Responses ==
    {[status_code |-> 200, text |-> "{...}", json |-> b] : b \in Bodies}
    \cup {[status_code |-> 204, text |-> "", json |-> MkObj(<<>>)],
          [status_code |-> 401, text |-> "Unauthorized", json |-> MkObj(<<>>)],
          [status_code |-> 500, text |-> "Internal Server Error",
           json |-> MkObj(<<>>)]}

----------------------------------------------------------------------------
(* main: the decisions of the steps.                                       *)

\* Mutant: `if api_key is None`.
NotApiKeyNoneOnly(key) == key = <<>>

\* `if not api_key`: None and "" are both falsy.
NotApiKey(key) == key = <<>> \/ key = <<"">>

\* Mutant: `if response.status_code >= 400`.
IsApiErrorFrom400(status_code) == status_code >= 400

\* `if response.status_code != 200`
IsApiError(status_code) == status_code # 200

\* The exception transcribe raises on a response that is not 200.
ApiError(r) ==
    [type |-> "Exception", status_code |-> r.status_code, text |-> r.text]

\* Mutant: the transcript dumped a second time.
DumpedTwice(w, doc) == w \o <<doc, doc>>

\* What `with open(output_path, "w") as f: json.dump(transcript, f)` adds
\* to the list of documents written.
Dumped(w, doc) == Append(w, doc)

\* Mutant: `if audio_path.exists()`, without the test of keep_audio.
CleanupIgnoringKeep(keep, path, files) ==
    IF path \in files THEN files \ {path, Parent(path)} ELSE files

\* The finally block of main: the files left.
Cleanup(keep, path, files) ==
    IF ~keep /\ path \in files
    THEN files \ {path, Parent(path)}
    ELSE files

\* Mutant: the exception swallowed, the process ending with 0.
ExitStatusAlwaysZero(err) == 0

\* The exit status of the interpreter when main() ends: 0 when it returns,
\* 1 when an exception leaves it.
ExitStatus(err) == IF err = <<>> THEN 0 ELSE 1

----------------------------------------------------------------------------
(* print_transcript.                                                       *)

Rule == "============================================================"

SegmentLine(segment) ==
    "[" \o format_timestamp(segment.start.num) \o " -> "
        \o format_timestamp(segment.end.num) \o "]  " \o Join(segment.text.str)

\* format_timestamp(segment["start"]) or (segment["end"]) raises.
LineRaises(segment) == ~IsNum(segment.start) \/ ~IsNum(segment.end)

Banner(t) ==
    << "\n" \o Rule,
       "TRANSCRIPT",
       "Duration: " \o format_timestamp(t.duration.num) \o "  |  Language: "
           \o (IF IsStr(t.language) THEN Join(t.language.str) ELSE "None"),
       "Segments: " \o ToString(Len(t.segments)),
       Rule \o "\n" >>

\* The lines printed for segments 1..n.
SegmentLines(t, n) == [i \in 1..n |-> SegmentLine(t.segments[i])]

\* The segments printed before one raises.
Printable(t) ==
    IF \E i \in 1..Len(t.segments) : LineRaises(t.segments[i])
    THEN (CHOOSE i \in 1..Len(t.segments) :
             /\ LineRaises(t.segments[i])
             /\ \A j \in 1..(i - 1) : ~LineRaises(t.segments[j])) - 1
    ELSE Len(t.segments)

PrintRaises(t) == Printable(t) < Len(t.segments)

\* Everything print_transcript prints when nothing raises.
Rendering(t) ==
    Banner(t) \o SegmentLines(t, Len(t.segments)) \o <<"\n" \o Rule>>

----------------------------------------------------------------------------
(* main: the steps.                                                        *)

Init ==
    /\ pc = "validate_video"
    /\ keep_audio \in BOOLEAN
    /\ args_output \in OutputArgs
    /\ video_exists \in BOOLEAN
    /\ api_key \in ApiKeys
    /\ ffmpeg \in {"ok", "missing", "broken"}
    /\ fs = IF video_exists THEN {video_path} ELSE {}
    /\ tmp_dir = <<>> /\ audio_path = <<>> /\ output_path = <<>>
    /\ wav_size = 0 /\ timeout = <<>> /\ posts = 0 /\ response = <<>>
    /\ transcript = <<>> /\ written = <<>> /\ stdout = <<>> /\ error = <<>>
    /\ exit_status = <<>> /\ trace = <<>>
    /\ arg = <<>> /\ ret = <<>>

\* sys.exit(code), outside the try block.
SysExit(code) == pc' = "exit" /\ exit_status' = <<code>>

\* An exception raised inside the try block: the finally block runs next.
Raise(e) == pc' = "finally" /\ error' = <<e>>

\* video_path.exists()
ValidateVideo ==
    /\ pc = "validate_video"
    /\ trace' = Append(trace, "validate_video")
    /\ IF ~video_exists THEN SysExit(1)
       ELSE pc' = "validate_key" /\ UNCHANGED exit_status
    /\ UNCHANGED <<keep_audio, args_output, video_exists, api_key, ffmpeg, fs,
                   tmp_dir, audio_path, output_path, wav_size, timeout, posts,
                   response, transcript, written, stdout, error, arg, ret>>

\* os.environ.get("FIREWORKS_API_KEY")
ValidateApiKey ==
    /\ pc = "validate_key"
    /\ trace' = Append(trace, "validate_key")
    /\ IF NotApiKey(api_key) THEN SysExit(1)
       ELSE pc' = "check_ffmpeg" /\ UNCHANGED exit_status
    /\ UNCHANGED <<keep_audio, args_output, video_exists, api_key, ffmpeg, fs,
                   tmp_dir, audio_path, output_path, wav_size, timeout, posts,
                   response, transcript, written, stdout, error, arg, ret>>

\* `ffmpeg -version`: FileNotFoundError when the binary is missing,
\* CalledProcessError when it fails.
check_ffmpeg ==
    /\ pc = "check_ffmpeg"
    /\ trace' = Append(trace, "check_ffmpeg")
    /\ IF ffmpeg # "ok" THEN SysExit(1)
       ELSE pc' = "output_path" /\ UNCHANGED exit_status
    /\ UNCHANGED <<keep_audio, args_output, video_exists, api_key, ffmpeg, fs,
                   tmp_dir, audio_path, output_path, wav_size, timeout, posts,
                   response, transcript, written, stdout, error, arg, ret>>

DetermineOutputPath ==
    /\ pc = "output_path"
    /\ output_path' = IF args_output # <<>> THEN args_output
                      ELSE <<DefaultOutput>>
    /\ pc' = "audio_path"
    /\ UNCHANGED <<keep_audio, args_output, video_exists, api_key, ffmpeg, fs,
                   tmp_dir, audio_path, wav_size, timeout, posts, response,
                   transcript, written, stdout, error, exit_status, trace,
                   arg, ret>>

\* The two branches of `if args.keep_audio`, up to the call of extract_audio.
ChooseAudioPath ==
    /\ pc = "audio_path"
    /\ \/ /\ keep_audio
          /\ audio_path' = <<KeptWav>>
          /\ UNCHANGED <<tmp_dir, fs, trace>>
       \/ /\ ~keep_audio
          /\ \E d \in TmpDirs \ fs :
                /\ tmp_dir' = <<d>>
                /\ fs' = fs \cup {d}
                /\ audio_path' = <<d \o <<VideoStem \o ".wav">> >>
          /\ trace' = Append(trace, "mkdtemp")
    /\ pc' = "extract_audio"
    /\ UNCHANGED <<keep_audio, args_output, video_exists, api_key, ffmpeg,
                   output_path, wav_size, timeout, posts, response,
                   transcript, written, stdout, error, exit_status, arg, ret>>

\* extract_audio, called outside the try block: a RuntimeError ends the
\* process.  A failed ffmpeg may or may not leave an output file behind.
extract_audio ==
    /\ pc = "extract_audio"
    /\ trace' = Append(trace, "extract_audio")
    /\ \/ /\ fs' = fs \cup {audio_path[1]}
          /\ wav_size' \in Sizes
          /\ pc' = "transcribe"
          /\ UNCHANGED <<error, exit_status>>
       \/ /\ \E partial \in BOOLEAN :
                fs' = IF partial THEN fs \cup {audio_path[1]} ELSE fs
          /\ error' = <<[type |-> "RuntimeError"]>>
          /\ SysExit(ExitStatus(error'))
          /\ UNCHANGED wav_size
    /\ UNCHANGED <<keep_audio, args_output, video_exists, api_key, ffmpeg,
                   tmp_dir, audio_path, output_path, timeout, posts, response,
                   transcript, written, stdout, arg, ret>>

\* transcribe: one POST, then the status check and the normalization.
transcribe ==
    /\ pc = "transcribe"
    /\ trace' = Append(trace, "transcribe")
    /\ timeout' = <<Timeout(wav_size)>>
    /\ posts' = posts + 1
    /\ \/ /\ Raise([type |-> "RequestException"])
          /\ UNCHANGED <<response, transcript>>
       \/ \E r \in Responses :
             /\ response' = <<r>>
             /\ IF IsApiError(r.status_code)
                THEN Raise(ApiError(r)) /\ UNCHANGED transcript
                ELSE LET n == Normalize(Name(audio_path[1]), r.json)
                     IN  IF "raised" \in DOMAIN n
                         THEN Raise([type |-> n.raised]) /\ UNCHANGED transcript
                         ELSE /\ transcript' = <<n.transcript>>
                              /\ pc' = "save"
                              /\ UNCHANGED error
    /\ UNCHANGED <<keep_audio, args_output, video_exists, api_key, ffmpeg, fs,
                   tmp_dir, audio_path, output_path, wav_size, written, stdout,
                   exit_status, arg, ret>>

\* `with open(output_path, "w") as f: json.dump(transcript, f, indent=2)`:
\* open may fail (OSError: no such directory, no permission).
SaveJson ==
    /\ pc = "save"
    /\ trace' = Append(trace, "save")
    /\ \/ /\ written' = Dumped(written, transcript[1])
          /\ fs' = fs \cup {output_path[1]}
          /\ pc' = "print_transcript"
          /\ UNCHANGED error
       \/ /\ Raise([type |-> "OSError"])
          /\ UNCHANGED <<written, fs>>
    /\ UNCHANGED <<keep_audio, args_output, video_exists, api_key, ffmpeg,
                   tmp_dir, audio_path, output_path, wav_size, timeout, posts,
                   response, transcript, stdout, exit_status, arg, ret>>

\* print_transcript: raises at the first segment whose start or end is no
\* number (int(None) in format_timestamp), after the lines before it.
print_transcript ==
    /\ pc = "print_transcript"
    /\ trace' = Append(trace, "print_transcript")
    /\ LET t == transcript[1]
       IN  \/ /\ ~PrintRaises(t)
              /\ stdout' = Rendering(t)
              /\ pc' = "finally"
              /\ UNCHANGED error
           \/ /\ PrintRaises(t)
              /\ stdout' = Banner(t) \o SegmentLines(t, Printable(t))
              /\ Raise([type |-> "TypeError"])
    /\ UNCHANGED <<keep_audio, args_output, video_exists, api_key, ffmpeg, fs,
                   tmp_dir, audio_path, output_path, wav_size, timeout, posts,
                   response, transcript, written, exit_status, arg, ret>>

\* The finally block, then the end of the process.
Finally ==
    /\ pc = "finally"
    /\ trace' = Append(trace, "finally")
    /\ fs' = Cleanup(keep_audio, audio_path[1], fs)
    /\ SysExit(ExitStatus(error))
    /\ UNCHANGED <<keep_audio, args_output, video_exists, api_key, ffmpeg,
                   tmp_dir, audio_path, output_path, wav_size, timeout, posts,
                   response, transcript, written, stdout, error, arg, ret>>

Next ==
    \/ ValidateVideo
    \/ ValidateApiKey
    \/ check_ffmpeg
    \/ DetermineOutputPath
    \/ ChooseAudioPath
    \/ extract_audio
    \/ transcribe
    \/ SaveJson
    \/ print_transcript
    \/ Finally

Spec == Init /\ [][Next]_vars

----------------------------------------------------------------------------
(* Properties of the pipeline (Spec).                                      *)

InTrace(step) == \E i \in 1..Len(trace) : trace[i] = step

IsPrefix(s, t) == Len(s) <= Len(t) /\ SubSeq(t, 1, Len(s)) = s

\* The steps in the order main() reaches them.
StepOrder ==
    <<"validate_video", "validate_key", "check_ffmpeg", "mkdtemp",
      "extract_audio", "transcribe", "save", "print_transcript", "finally">>

Rank(step) == CHOOSE i \in 1..Len(StepOrder) : StepOrder[i] = step

\* C1: in a run without --keep-audio, once the temporary directory has been
\* allocated, every terminal state is free of the temporary WAV and of its
\* directory, whichever step failed.
ClaimC1_NoTempLeft ==
    (pc = "exit" /\ ~keep_audio /\ tmp_dir # <<>>)
        => (tmp_dir[1] \notin fs /\ audio_path[1] \notin fs)

\* C2: with --keep-audio the WAV path is <video-dir>/<video-stem>.wav, no
\* temporary directory is ever allocated, and once extract_audio has
\* succeeded the WAV exists in every later state, terminal states after a
\* failed remote call or a failed write included.
ClaimC2_KeptWavStays ==
    keep_audio =>
        /\ tmp_dir = <<>>
        /\ fs \cap TmpDirs = {}
        /\ ~InTrace("mkdtemp")
        /\ audio_path \in {<<>>, << <<"videos", "talk.wav">> >>}
        /\ (pc = "transcribe" \/ InTrace("transcribe"))
               => <<"videos", "talk.wav">> \in fs

WitnessC2 ==
    /\ keep_audio /\ pc = "exit" /\ exit_status = <<1>>
    /\ response # <<>> /\ response[1].status_code = 500
    /\ <<"videos", "talk.wav">> \in fs

\* C3: the three checks run in the order video file, credential, ffmpeg,
\* each only after the one before passed; a run whose video is missing,
\* whose key is unset or empty, or whose ffmpeg check fails never allocates
\* a temporary directory, extracts, posts or writes; and the steps never
\* start out of the order validate, extract, transcribe, output.
ClaimC3_ChecksBeforeWork ==
    LET bad_video == ~video_exists
        bad_key == api_key \in {<<>>, <<"">>}
        bad_ffmpeg == ffmpeg # "ok"
        checks == <<"validate_video", "validate_key", "check_ffmpeg">>
    IN  /\ \A i, j \in 1..Len(trace) :
               i < j => Rank(trace[i]) < Rank(trace[j])
        /\ \A i \in 1..Len(trace) :
               Rank(trace[i]) > 3 => SubSeq(trace, 1, 3) = checks
        /\ IsPrefix(trace, checks) \/ IsPrefix(checks, trace)
        /\ InTrace("transcribe") => InTrace("extract_audio")
        /\ InTrace("save") => InTrace("transcribe")
        /\ InTrace("print_transcript") => InTrace("save")
        /\ bad_video => IsPrefix(trace, SubSeq(checks, 1, 1))
        /\ bad_key => IsPrefix(trace, SubSeq(checks, 1, 2))
        /\ (bad_video \/ bad_key \/ bad_ffmpeg) =>
               /\ IsPrefix(trace, checks)
               /\ tmp_dir = <<>> /\ audio_path = <<>>
               /\ fs \subseteq {video_path}
               /\ posts = 0 /\ response = <<>> /\ timeout = <<>>
               /\ written = <<>> /\ stdout = <<>>

WitnessC3 ==
    /\ pc = "exit" /\ exit_status = <<1>>
    /\ video_exists /\ api_key = <<"fw_key">> /\ ffmpeg = "missing"
    /\ trace = <<"validate_video", "validate_key", "check_ffmpeg">>

\* The run completed its four stages, told from what it left behind.
AllStagesCompleted ==
    /\ video_exists /\ api_key \notin {<<>>, <<"">>} /\ ffmpeg = "ok"
    /\ InTrace("extract_audio")
    /\ response # <<>> /\ response[1].status_code = 200
    /\ transcript # <<>>
    /\ written = <<transcript[1]>>
    /\ Len(stdout) = Len(transcript[1].segments) + 6
    /\ stdout[Len(stdout)] = "\n" \o Rule

\* C4: a terminated run has exit status 0 exactly when all four stages
\* completed, and 1 otherwise: for a missing video, a missing credential, a
\* missing ffmpeg, a failed extraction and a response that is not 200.
ClaimC4_ExitStatus ==
    pc = "exit" =>
        /\ exit_status = <<IF AllStagesCompleted THEN 0 ELSE 1>>
        /\ ~video_exists => exit_status = <<1>>
        /\ api_key \in {<<>>, <<"">>} => exit_status = <<1>>
        /\ ffmpeg # "ok" => exit_status = <<1>>
        /\ (error # <<>> /\ error[1].type = "RuntimeError")
               => exit_status = <<1>>
        /\ (response # <<>> /\ response[1].status_code # 200)
               => exit_status = <<1>>

WitnessC4 ==
    /\ pc = "exit" /\ exit_status = <<0>> /\ AllStagesCompleted
    /\ Len(transcript[1].segments) = 2
    /\ stdout[6] = "[0m00s -> 0m15s]  hello"
    /\ stdout[7] = "[0m15s -> 0m30s]  world"

\* C5: a run sends at most one POST, and on every response whose status is
\* not 200 transcribe raises an error carrying that status code and the
\* response text, without a second request and without a transcript.
ClaimC5_SingleAttempt ==
    /\ posts <= 1
    /\ posts = 1 <=> InTrace("transcribe")
    /\ (response # <<>> /\ response[1].status_code # 200) =>
           /\ posts = 1
           /\ pc \in {"finally", "exit"}
           /\ error = <<[type |-> "Exception",
                         status_code |-> response[1].status_code,
                         text |-> response[1].text]>>
           /\ transcript = <<>> /\ written = <<>>

WitnessC5 ==
    /\ pc = "exit" /\ posts = 1
    /\ response # <<>> /\ response[1].status_code = 401
    /\ error # <<>> /\ error[1].type = "Exception"

\* The formula of the specification, max(120, size_MB / 10 * 60 + 60) with
\* size_MB = st_size / 2^20, multiplied by 2^20.
FormulaTimesMiB(st_size) == Max(120 * MiB, st_size * 6 + 60 * MiB)

\* C8 as stated: for every WAV size the timeout passed to the POST equals
\* max(120, size_MB / 10 * 60 + 60) seconds.
ClaimC8_TimeoutEqualsFormula ==
    timeout # <<>> => timeout[1] * MiB = FormulaTimesMiB(wav_size)

\* C8 amended: the timeout is max(120, int(size_MB / 10 * 60) + 60), the
\* size term truncated to whole seconds before the margin is added: it never
\* exceeds the formula, falls short of it by at most one second, equals it
\* for a whole multiple of 10 MiB (100 MiB gives 660), is the truncated
\* formula when size_MB * 6 is no integer, is 182 for 20.5 MiB (where the
\* formula gives 183), is 120 for 1 MiB and is never below 120.
ClaimC8_TimeoutTruncated ==
    timeout # <<>> =>
        /\ timeout[1] * MiB <= FormulaTimesMiB(wav_size)
        /\ timeout[1] * MiB >= FormulaTimesMiB(wav_size) - MiB
        /\ (wav_size * 6) % MiB # 0 =>
               timeout[1] = Max(120, (wav_size * 6) \div MiB + 60)
        /\ wav_size % (10 * MiB) = 0 =>
               timeout[1] * MiB = FormulaTimesMiB(wav_size)
        /\ wav_size = 100 * MiB => timeout[1] = 660
        /\ wav_size = 21495808 => timeout[1] = 182
        /\ wav_size = MiB => timeout[1] = 120
        /\ timeout[1] >= 120

WitnessC8 ==
    /\ timeout # <<>> /\ timeout[1] > 120
    /\ timeout[1] * MiB < FormulaTimesMiB(wav_size)
    /\ (wav_size * 6) % MiB # 0

\* C10 as stated: the output file is written at most once and only after a
\* 200 response has been normalized, and a run that ends in failure leaves
\* it unwritten: the file is written only if the run exits 0.
ClaimC10_WrittenOnlyOnSuccess ==
    /\ Len(written) <= 1
    /\ written # <<>> =>
           /\ response # <<>> /\ response[1].status_code = 200
           /\ transcript # <<>>
    /\ (pc = "exit" /\ written # <<>>) => exit_status = <<0>>

\* C10 amended: the output file is written at most once and only after a 200
\* response has been normalized; a run that fails before the output stage
\* leaves it unwritten and a run that exits 0 has written the transcript; a
\* run that exits 1 with the file written failed in print_transcript, after
\* the write.
ClaimC10_WrittenOnceAfterNormalize ==
    /\ Len(written) <= 1
    /\ written # <<>> =>
           /\ response # <<>> /\ response[1].status_code = 200
           /\ transcript # <<>> /\ written = transcript
           /\ InTrace("save")
    /\ (pc = "exit" /\ ~InTrace("save")) => written = <<>>
    /\ (pc = "exit" /\ exit_status = <<0>>) => written = transcript
    /\ (pc = "exit" /\ exit_status = <<1>> /\ written # <<>>) =>
           /\ InTrace("print_transcript")
           /\ error = <<[type |-> "TypeError"]>>
           /\ Len(stdout) < Len(transcript[1].segments) + 6

WitnessC10 ==
    /\ pc = "exit" /\ exit_status = <<1>>
    /\ written # <<>> /\ written = transcript
    /\ output_path[1] \in fs
    /\ InTrace("print_transcript")
    /\ error = <<[type |-> "TypeError"]>>

----------------------------------------------------------------------------
(* Properties of the pure functions (SpecFn).                              *)

\* The segments of a response body, [] when absent.
SourceSegments(result) == Get(result, "segments", Arr(<<>>)).arr

Returned == arg.fn = "normalize" /\ ret # <<>> /\ "transcript" \in DOMAIN ret[1]

\* C6: a normalized segment has the key words exactly when its source
\* segment has it, and then one entry per source word; a source segment
\* without words never yields an empty list or a null.
ClaimC6_WordsIffSource ==
    Returned =>
        LET src == SourceSegments(arg.result)
            out == ret[1].transcript.segments
        IN  /\ Len(out) = Len(src)
            /\ \A i \in 1..Len(src) :
                   /\ "words" \in DOMAIN out[i] <=> "words" \in DOMAIN src[i]
                   /\ DOMAIN out[i] \ {"words"} = {"start", "end", "text"}
                   /\ "words" \in DOMAIN src[i] =>
                          /\ DOMAIN out[i]["words"]
                                 = 1..Len(src[i]["words"].arr)
                          /\ \A k \in 1..Len(src[i]["words"].arr) :
                                 DOMAIN out[i]["words"][k]
                                     = {"word", "start", "end"}

WitnessC6 ==
    /\ Returned
    /\ Len(SourceSegments(arg.result)) = 1
    /\ "words" \in DOMAIN arg.result["segments"].arr[1]
    /\ Len(arg.result["segments"].arr[1]["words"].arr) = 1
    /\ Len(ret[1].transcript.segments[1]["words"]) = 1

\* The value normalization must give a field: the source value when the key
\* is present, the documented default when it is absent.
OrDefault(obj, key, default, value) ==
    key \notin DOMAIN obj => value = default

\* C7: a 200 response whose optional fields are absent, in any combination
\* at the top level, in the segments and in the words, never makes
\* transcribe raise, and every absent field takes its default: language
\* "en", duration 0, segments empty, start 0, end 0, text "", word "", words
\* omitted.
ClaimC7_AbsentFieldsDefault ==
    (arg.fn = "normalize" /\ ret # <<>> /\ arg.result \notin NullObjs) =>
        /\ "transcript" \in DOMAIN ret[1]
        /\ LET r == arg.result
               t == ret[1].transcript
               src == SourceSegments(r)
           IN  /\ OrDefault(r, "language", [str |-> <<"e", "n">>], t.language)
               /\ OrDefault(r, "duration", [num |-> 0], t.duration)
               /\ OrDefault(r, "segments", <<>>, t.segments)
               /\ Len(t.segments) = Len(src)
               /\ \A i \in 1..Len(src) :
                      /\ OrDefault(src[i], "start", [num |-> 0],
                                   t.segments[i].start)
                      /\ OrDefault(src[i], "end", [num |-> 0],
                                   t.segments[i].end)
                      /\ OrDefault(src[i], "text", [str |-> <<>>],
                                   t.segments[i].text)
                      /\ "words" \notin DOMAIN src[i] =>
                             "words" \notin DOMAIN t.segments[i]
                      /\ "words" \in DOMAIN src[i] =>
                             \A k \in 1..Len(src[i]["words"].arr) :
                                 LET w == src[i]["words"].arr[k]
                                     o == t.segments[i]["words"][k]
                                 IN  /\ OrDefault(w, "word", [str |-> <<>>],
                                                  o.word)
                                     /\ OrDefault(w, "start", [num |-> 0],
                                                  o.start)
                                     /\ OrDefault(w, "end", [num |-> 0], o.end)

WitnessC7 ==
    /\ arg.fn = "normalize"
    /\ arg.result = [segments |-> [arr |-> << [words |-> [arr |-> << <<>> >>]] >>]]
    /\ ret = << [transcript |->
                   [audio_file |-> "talk.wav",
                    language |-> [str |-> <<"e", "n">>],
                    duration |-> [num |-> 0],
                    segments |->
                        << [start |-> [num |-> 0], end |-> [num |-> 0],
                            text |-> [str |-> <<>>],
                            words |-> << [word |-> [str |-> <<>>],
                                          start |-> [num |-> 0],
                                          end |-> [num |-> 0]] >>] >>]] >>

\* Two decimal digits of n in 0..99.
TwoDigits(n) == ToString(n \div 10) \o ToString(n % 10)

\* C9: for seconds s >= 0 truncated to whole seconds t, format_timestamp
\* gives "{m}m{ss}s" with m = t div 60 and ss = t mod 60 when t < 3600, and
\* "{h}h{mm}m{ss}s" with h = t div 3600, mm = (t mod 3600) div 60 and
\* ss = t mod 60 otherwise, two digits each; 0, 59, 60, 3661 and 1.9 give
\* 0m00s, 0m59s, 1m00s, 1h01m01s and 0m01s; seconds and minutes of the hour
\* form stay in 0..59.
ClaimC9_FormatTimestamp ==
    (arg.fn = "format_timestamp" /\ arg.seconds >= 0 /\ ret # <<>>) =>
        LET t == arg.seconds \div 10
            f == TimestampFields(arg.seconds)
        IN  /\ t < 3600 =>
                   ret[1] = ToString(t \div 60) \o "m" \o TwoDigits(t % 60)
                                \o "s"
            /\ t >= 3600 =>
                   ret[1] = ToString(t \div 3600) \o "h"
                                \o TwoDigits((t % 3600) \div 60) \o "m"
                                \o TwoDigits(t % 60) \o "s"
            /\ arg.seconds = 0 => ret[1] = "0m00s"
            /\ arg.seconds = 590 => ret[1] = "0m59s"
            /\ arg.seconds = 600 => ret[1] = "1m00s"
            /\ arg.seconds = 36610 => ret[1] = "1h01m01s"
            /\ arg.seconds = 19 => ret[1] = "0m01s"
            /\ f.secs \in 0..59
            /\ f.hours > 0 => f.minutes \in 0..59

WitnessC9 ==
    /\ arg.fn = "format_timestamp" /\ arg.seconds = 36619
    /\ ret = <<"1h01m01s">>

====
